---- MODULE Spec2Model ----
(***************************************************************************)
(* A model of goraygen's introspection and canonicalization engine:        *)
(* the import store (import.go), the type canonicalizer getTypeName, the   *)
(* method scanner FindMethods, the declaration scanner FindStruct and the  *)
(* identifier sanitizer IdentifiableTypeName (utils.go).                   *)
(*                                                                         *)
(* Go strings are modelled as sequences of one-character strings, so that  *)
(* prefix tests, LastIndex, Sprintf and the regular expressions act on     *)
(* characters as the code does.                                            *)
(***************************************************************************)
EXTENDS Integers, Sequences, FiniteSets, TLC

VARIABLES
    importPath2pkgName,  \* ImportStore.importPath2pkgName: import path -> package name (alias)
    pkgName2importExpr,  \* ImportStore.pkgName2importExpr: package name -> import declaration
    passed,              \* history: the import paths AddImport has been called with
    pkg,                 \* the *packages.Package being scanned, or NoPackage
    currentPkgPath,      \* pkg.Types.Path() of the package being scanned
    pc,                  \* "idle": no call in progress; "returned": a call's result is in last
    last,                \* the operation that just returned, its argument and its result
    held                 \* an earlier call whose result the caller has kept, or NoCall

vars == <<importPath2pkgName, pkgName2importExpr, passed, pkg, currentPkgPath, pc, last, held>>

-----------------------------------------------------------------------------
(* Bounds of the model *)

\* the calls stop at this many imports registered in the store
MaxImports == 3

-----------------------------------------------------------------------------
(* Strings *)

Digits == <<"0", "1", "2", "3", "4", "5", "6", "7", "8", "9">>

\* fmt's %d for a non-negative int
RECURSIVE FormatInt(_)
FormatInt(i) ==
    IF i < 10 THEN <<Digits[i + 1]>>
    ELSE FormatInt(i \div 10) \o <<Digits[(i % 10) + 1]>>

\* strings.HasPrefix(s, prefix)
HasPrefix(s, prefix) ==
    /\ Len(s) >= Len(prefix)
    /\ SubSeq(s, 1, Len(prefix)) = prefix

\* whether sub occurs in s at the 1-based index i
OccursAt(s, sub, i) ==
    /\ i >= 1
    /\ i + Len(sub) - 1 <= Len(s)
    /\ SubSeq(s, i, i + Len(sub) - 1) = sub

\* strings.LastIndex(s, sep), 0-based, -1 when sep does not occur
LastIndex(s, sep) ==
    LET hits == {i \in 1..Len(s) : OccursAt(s, sep, i)}
    IN  IF hits = {} THEN -1
        ELSE (CHOOSE i \in hits : \A j \in hits : j <= i) - 1

Slash == <<"/">>
Quote == <<"\"">>
Dot == <<".">>
Space == <<" ">>

-----------------------------------------------------------------------------
(* import.go *)

\* getPackageName keeping the separator in front of the last segment
getPackageNameSep(importPath) ==
    LET lastIndex == LastIndex(importPath, Slash)
    IN  IF lastIndex = -1 THEN importPath
        ELSE SubSeq(importPath, lastIndex + 1, Len(importPath))

\* func getPackageName(importPath string) string
getPackageName(importPath) ==
    LET lastIndex == LastIndex(importPath, Slash)
    IN  IF lastIndex = -1 THEN importPath
        ELSE SubSeq(importPath, lastIndex + Len(Slash) + 1, Len(importPath))

\* an ImportStore value: the two maps, and with them the history of the
\* import paths its AddImport was called with
Store(p2n, n2e, args) ==
    [importPath2pkgName |-> p2n, pkgName2importExpr |-> n2e, passed |-> args]

\* func NewImportStore() *ImportStore
NewImportStore == Store(<<>>, <<>>, {})

\* m[k] = v on a Go map
MapSet(m, k, v) == [x \in (DOMAIN m) \cup {k} |-> IF x = k THEN v ELSE m[x]]

\* newPkgName without its loop: the candidate is taken without the lookup
newPkgNameFirst(n2e, pkgName, i) == pkgName \o FormatInt(i)

\* the name-conflict loop of AddImport: the first pkgName+i, i counting up,
\* that is no key of pkgName2importExpr
RECURSIVE newPkgName(_, _, _)
newPkgName(n2e, pkgName, i) ==
    LET cand == pkgName \o FormatInt(i)
    IN  IF cand \notin DOMAIN n2e THEN cand
        ELSE newPkgName(n2e, pkgName, i + 1)

\* ImportExpr without the alias of a renamed import
ImportExprBare(importPath, name, renamed) == Quote \o importPath \o Quote

\* the import declaration AddImport records for importPath under alias name
ImportExpr(importPath, name, renamed) ==
    IF renamed THEN Quote \o importPath \o Quote \o Space \o name
    ELSE Quote \o importPath \o Quote

\* bindImport without the name-conflict branch: the default name is bound
\* whether or not another path has it
bindImportOverwrite(store, importPath) ==
    LET pkgName == getPackageName(importPath)
        p2n2 == MapSet(store.importPath2pkgName, importPath, pkgName)
        n2e2 == MapSet(store.pkgName2importExpr, pkgName, ImportExpr(importPath, pkgName, FALSE))
    IN  [store |-> Store(p2n2, n2e2, store.passed \cup {importPath}), ret |-> p2n2[importPath]]

\* bindImport recording a renamed import under the default name, not the new one
bindImportExprKey(store, importPath) ==
    LET n2e == store.pkgName2importExpr
        pkgName == getPackageName(importPath)
        renamed == pkgName \in DOMAIN n2e
        name == IF renamed THEN newPkgName(n2e, pkgName, 2) ELSE pkgName
        p2n2 == MapSet(store.importPath2pkgName, importPath, name)
        n2e2 == MapSet(n2e, pkgName, ImportExpr(importPath, name, renamed))
    IN  [store |-> Store(p2n2, n2e2, store.passed \cup {importPath}), ret |-> p2n2[importPath]]

\* AddImport for an import path the store has not seen: the default name, or on
\* a name conflict the first free pkgName+i, is bound to the path both ways
bindImport(store, importPath) ==
    LET n2e == store.pkgName2importExpr
        pkgName == getPackageName(importPath)
        renamed == pkgName \in DOMAIN n2e
        name == IF renamed THEN newPkgName(n2e, pkgName, 2) ELSE pkgName
        p2n2 == MapSet(store.importPath2pkgName, importPath, name)
        n2e2 == MapSet(n2e, name, ImportExpr(importPath, name, renamed))
    IN  [store |-> Store(p2n2, n2e2, store.passed \cup {importPath}), ret |-> p2n2[importPath]]

\* AddImport without the lookup of a path seen before
AddImportRebind(store, importPath) == bindImport(store, importPath)

\* func (store *ImportStore) AddImport(importPath string) string
\* the store after the call and the string returned
AddImport(store, importPath) ==
    IF importPath \in DOMAIN store.importPath2pkgName
    THEN [store |-> Store(store.importPath2pkgName, store.pkgName2importExpr,
                          store.passed \cup {importPath}),
          ret |-> store.importPath2pkgName[importPath]]
    ELSE bindImport(store, importPath)

\* all orders in which the elements of the finite set S can be listed
RECURSIVE Orderings(_)
Orderings(S) ==
    IF S = {} THEN {<<>>}
    ELSE UNION {{<<x>> \o o : o \in Orderings(S \ {x})} : x \in S}

\* func (store *ImportStore) DumpImportExprs() []string
\* gmap.Values ranges over a Go map, whose iteration order is unspecified:
\* every listing of the values, one per key, is a possible result
DumpImportExprs(store) ==
    LET n2e == store.pkgName2importExpr
    IN  {[i \in 1..Len(o) |-> n2e[o[i]]] : o \in Orderings(DOMAIN n2e)}

-----------------------------------------------------------------------------
(* go/types values, as the type checker hands them to getTypeName *)

NoPkg == <<>>

\* *types.Named: obj.Name() and obj.Pkg().Path(); hasPkg is obj.Pkg() != nil
NamedT(path, name) ==
    [kind |-> "Named", hasPkg |-> TRUE, pkg |-> path, name |-> name,
     len |-> 0, dir |-> "", args |-> <<>>]

\* a predeclared named type (error): obj.Pkg() is nil
PredeclaredT(name) ==
    [kind |-> "Named", hasPkg |-> FALSE, pkg |-> NoPkg, name |-> name,
     len |-> 0, dir |-> "", args |-> <<>>]

\* *types.Basic; dir "unsafe" marks Kind() == types.UnsafePointer
BasicT(name) ==
    [kind |-> "Basic", hasPkg |-> FALSE, pkg |-> NoPkg, name |-> name,
     len |-> 0, dir |-> "", args |-> <<>>]

StrUnsafe == <<"u", "n", "s", "a", "f", "e">>
StrPointer == <<"P", "o", "i", "n", "t", "e", "r">>

UnsafePointerT ==
    [kind |-> "Basic", hasPkg |-> FALSE, pkg |-> NoPkg, name |-> StrPointer,
     len |-> 0, dir |-> "unsafe", args |-> <<>>]

Composite(kind, len, dir, args) ==
    [kind |-> kind, hasPkg |-> FALSE, pkg |-> NoPkg, name |-> <<>>,
     len |-> len, dir |-> dir, args |-> args]

PointerT(elem) == Composite("Pointer", 0, "", <<elem>>)
SliceT(elem) == Composite("Slice", 0, "", <<elem>>)
ArrayT(n, elem) == Composite("Array", n, "", <<elem>>)
MapT(key, elem) == Composite("Map", 0, "", <<key, elem>>)
\* dir is types.SendRecv, types.SendOnly or types.RecvOnly
ChanT(dir, elem) == Composite("Chan", 0, dir, <<elem>>)
\* func(params...), struct{F field}, interface{}
SignatureT(params) == Composite("Signature", 0, "", params)
StructT(field) == Composite("Struct", 0, "", <<field>>)
InterfaceT == Composite("Interface", 0, "", <<>>)

StrChan == <<"c", "h", "a", "n", " ">>
StrSendChan == <<"c", "h", "a", "n", "<", "-", " ">>
StrRecvChan == <<"<", "-", "c", "h", "a", "n", " ">>
StrMapOpen == <<"m", "a", "p", "[">>
StrFuncOpen == <<"f", "u", "n", "c", "(">>
StrStructOpen == <<"s", "t", "r", "u", "c", "t", "{", "F", " ">>
StrInterface == <<"i", "n", "t", "e", "r", "f", "a", "c", "e", "{", "}">>

\* the channel prefix of getTypeName's switch on t.Dir()
ChanDir(dir) ==
    CASE dir = "SendRecv" -> StrChan
      [] dir = "SendOnly" -> StrSendChan
      [] dir = "RecvOnly" -> StrRecvChan
      [] OTHER -> <<>>

\* strings.Join(elems, sep)
RECURSIVE Join(_, _)
Join(elems, sep) ==
    IF Len(elems) = 0 THEN <<>>
    ELSE IF Len(elems) = 1 THEN elems[1]
    ELSE elems[1] \o sep \o Join(Tail(elems), sep)

\* types.Type.String(): go/types' own rendering, which qualifies every named
\* type by its full package path and registers nothing in the import store
RECURSIVE TypeString(_)
TypeString(t) ==
    CASE t.kind = "Named" ->
            IF t.hasPkg THEN t.pkg \o Dot \o t.name ELSE t.name
      [] t.kind = "Basic" ->
            IF t.dir = "unsafe" THEN StrUnsafe \o Dot \o t.name ELSE t.name
      [] t.kind = "Pointer" -> <<"*">> \o TypeString(t.args[1])
      [] t.kind = "Slice" -> <<"[", "]">> \o TypeString(t.args[1])
      [] t.kind = "Array" -> <<"[">> \o FormatInt(t.len) \o <<"]">> \o TypeString(t.args[1])
      [] t.kind = "Map" ->
            StrMapOpen \o TypeString(t.args[1]) \o <<"]">> \o TypeString(t.args[2])
      [] t.kind = "Chan" -> ChanDir(t.dir) \o TypeString(t.args[1])
      [] t.kind = "Signature" ->
            StrFuncOpen \o Join([i \in 1..Len(t.args) |-> TypeString(t.args[i])], <<",", " ">>)
                \o <<")">>
      [] t.kind = "Struct" -> StrStructOpen \o TypeString(t.args[1]) \o <<"}">>
      [] OTHER -> StrInterface

-----------------------------------------------------------------------------
(* utils.go: getTypeName *)

\* namedTypeName qualifying by the path's last segment, not by the alias
namedTypeNameSegment(typ, curPkgPath, store) ==
    IF typ.hasPkg /\ typ.pkg # curPkgPath
    THEN LET a == AddImport(store, typ.pkg)
         IN  [store |-> a.store, name |-> getPackageName(typ.pkg) \o Dot \o typ.name]
    ELSE [store |-> store, name |-> typ.name]

\* namedTypeName without the comparison to the current package's path
namedTypeNameAlways(typ, curPkgPath, store) ==
    IF typ.hasPkg
    THEN LET a == AddImport(store, typ.pkg)
         IN  [store |-> a.store, name |-> a.ret \o Dot \o typ.name]
    ELSE [store |-> store, name |-> typ.name]

\* namedTypeName qualifying a path's first use by its last segment
namedTypeNameFirstUse(typ, curPkgPath, store) ==
    IF typ.hasPkg /\ typ.pkg # curPkgPath
    THEN LET a == AddImport(store, typ.pkg)
             q == IF typ.pkg \in DOMAIN store.importPath2pkgName
                  THEN a.ret ELSE getPackageName(typ.pkg)
         IN  [store |-> a.store, name |-> q \o Dot \o typ.name]
    ELSE [store |-> store, name |-> typ.name]

\* getTypeName's branch for a *types.Named: the only case with a package name
namedTypeName(typ, curPkgPath, store) ==
    IF typ.hasPkg /\ typ.pkg # curPkgPath
    THEN LET a == AddImport(store, typ.pkg)
         IN  [store |-> a.store, name |-> a.ret \o Dot \o typ.name]
    ELSE [store |-> store, name |-> typ.name]

\* func getTypeName(typ types.Type, currentPkgPath string, importStore *ImportStore) string
\* the store after the call and the string returned
RECURSIVE getTypeName(_, _, _)
getTypeName(typ, curPkgPath, store) ==
    CASE typ.kind = "Named" -> namedTypeName(typ, curPkgPath, store)
      [] typ.kind = "Basic" ->
            IF typ.dir = "unsafe"
            THEN LET a == AddImport(store, StrUnsafe)
                 IN  [store |-> a.store, name |-> a.ret \o Dot \o typ.name]
            ELSE [store |-> store, name |-> typ.name]
      [] typ.kind = "Pointer" ->
            LET e == getTypeName(typ.args[1], curPkgPath, store)
            IN  [store |-> e.store, name |-> <<"*">> \o e.name]
      [] typ.kind = "Slice" ->
            LET e == getTypeName(typ.args[1], curPkgPath, store)
            IN  [store |-> e.store, name |-> <<"[", "]">> \o e.name]
      [] typ.kind = "Array" ->
            LET e == getTypeName(typ.args[1], curPkgPath, store)
            IN  [store |-> e.store,
                 name |-> <<"[">> \o FormatInt(typ.len) \o <<"]">> \o e.name]
      [] typ.kind = "Map" ->
            LET k == getTypeName(typ.args[1], curPkgPath, store)
                e == getTypeName(typ.args[2], curPkgPath, k.store)
            IN  [store |-> e.store, name |-> StrMapOpen \o k.name \o <<"]">> \o e.name]
      [] typ.kind = "Chan" ->
            LET e == getTypeName(typ.args[1], curPkgPath, store)
            IN  [store |-> e.store, name |-> ChanDir(typ.dir) \o e.name]
      [] OTHER -> [store |-> store, name |-> TypeString(typ)]

-----------------------------------------------------------------------------
(* The import paths and types the calls are made with *)

StrT == <<"T">>
StrInt == <<"i", "n", "t">>
StrError == <<"e", "r", "r", "o", "r">>

\* foreign import paths: three share the last segment x, and one is x2, the
\* first candidate AddImport generates for a taken x
PathList == << <<"a", "/", "x">>, <<"b", "/", "x">>, <<"x", "2">>, <<"c", "/", "x">> >>

Paths == {PathList[i] : i \in 1..Len(PathList)}

\* the path of the package being scanned when it is none of PathList
LocalPath == <<"m", "/", "x">>

CurrentPkgPaths == {LocalPath, PathList[1]}

\* the paths AddImport is called with
ImportPaths == Paths \cup {StrUnsafe}

\* the types without element types
Leaves ==
    {NamedT(p, StrT) : p \in Paths \cup {LocalPath}}
        \cup {BasicT(StrInt), UnsafePointerT, PredeclaredT(StrError), InterfaceT}

\* the element types of the composite types: two foreign named types of the
\* same name, a named type of LocalPath, a basic type and unsafe.Pointer
ElemTypes ==
    {NamedT(PathList[1], StrT), NamedT(PathList[2], StrT), NamedT(LocalPath, StrT),
     BasicT(StrInt), UnsafePointerT}

\* the key types of the maps
KeyTypes == {NamedT(PathList[1], StrT), NamedT(LocalPath, StrT), BasicT(StrInt)}

\* one constructor applied to element types
Wrapped ==
    UNION {{PointerT(e), SliceT(e), ArrayT(2, e), ChanT("SendRecv", e),
            ChanT("SendOnly", e), ChanT("RecvOnly", e), SignatureT(<<e>>),
            StructT(e)} : e \in ElemTypes}
        \cup {MapT(k, e) : k \in KeyTypes, e \in ElemTypes \ {UnsafePointerT}}

\* deeper types, after utils_test.go's map[time.Duration][]*bytes.Buffer
Nested ==
    {MapT(NamedT(PathList[1], StrT), SliceT(PointerT(NamedT(PathList[2], StrT)))),
     MapT(NamedT(LocalPath, StrT), SliceT(PointerT(NamedT(PathList[2], StrT)))),
     MapT(BasicT(StrInt), MapT(NamedT(PathList[2], StrT), NamedT(PathList[1], StrT))),
     SliceT(SliceT(NamedT(PathList[2], StrT))),
     ArrayT(12, ChanT("RecvOnly", PointerT(NamedT(LocalPath, StrT)))),
     SignatureT(<<NamedT(PathList[1], StrT), SliceT(NamedT(PathList[2], StrT))>>)}

Types == Leaves \cup Wrapped \cup Nested

-----------------------------------------------------------------------------
(* The state machine: calls on one ImportStore *)

NoType == Composite("none", 0, "", <<>>)

\* a returned call: the operation, its argument, what it returned, and fresh:
\* whether it passed the store an import path the store had not been passed
Call(op, path, typ, ret, exprs) ==
    [op |-> op, path |-> path, typ |-> typ, ret |-> ret, exprs |-> exprs,
     fresh |-> FALSE]

NoCall == Call("none", <<>>, NoType, <<>>, <<>>)

\* no package is loaded: the calls are made on the store alone
NoPackage == [path |-> <<>>, syntax |-> <<>>, scope |-> <<>>]

\* the ImportStore of the run
importStore == Store(importPath2pkgName, pkgName2importExpr, passed)

Init ==
    /\ importPath2pkgName = NewImportStore.importPath2pkgName
    /\ pkgName2importExpr = NewImportStore.pkgName2importExpr
    /\ passed = NewImportStore.passed
    /\ pkg = NoPackage
    /\ currentPkgPath \in CurrentPkgPaths
    /\ pc = "idle"
    /\ last = NoCall
    /\ held = NoCall

\* the same operation with the same argument
SameCall(c, d) == c.op = d.op /\ c.path = d.path /\ c.typ = d.typ

\* the store becomes s and the call c has returned. Once the caller has kept a
\* result, the calls that follow are all made, and the results looked at are
\* those of the calls that repeat the kept one
Returns(s, c) ==
    /\ Cardinality(s.passed) <= MaxImports
    /\ importPath2pkgName' = s.importPath2pkgName
    /\ pkgName2importExpr' = s.pkgName2importExpr
    /\ passed' = s.passed
    /\ pc' = "returned"
    /\ last' = IF held = NoCall \/ SameCall(held, c)
               THEN [c EXCEPT !.fresh = (s.passed # passed)] ELSE NoCall
    /\ UNCHANGED <<pkg, currentPkgPath, held>>

\* a call of importStore.AddImport(importPath)
AddImportCall(importPath) ==
    /\ pc = "idle"
    /\ LET r == AddImport(importStore, importPath)
       IN  Returns(r.store, Call("AddImport", importPath, NoType, r.ret, <<>>))

\* a call of getTypeName(typ, currentPkgPath, importStore)
GetTypeNameCall(typ) ==
    /\ pc = "idle"
    /\ LET r == getTypeName(typ, currentPkgPath, importStore)
       IN  Returns(r.store, Call("getTypeName", <<>>, typ, r.name, <<>>))

\* a call of importStore.DumpImportExprs()
DumpImportExprsCall ==
    /\ pc = "idle"
    /\ \E exprs \in DumpImportExprs(importStore) :
          Returns(importStore, Call("DumpImportExprs", <<>>, NoType, <<>>, exprs))

\* the caller takes the result; the next call can be made
Return ==
    /\ pc = "returned"
    /\ pc' = "idle"
    /\ last' = NoCall
    /\ UNCHANGED <<importPath2pkgName, pkgName2importExpr, passed, pkg, currentPkgPath, held>>

\* the caller keeps the result of the AddImport or getTypeName call that just
\* returned, to compare it with what the same call returns later
Hold ==
    /\ pc = "returned"
    /\ held = NoCall
    /\ last.op \in {"AddImport", "getTypeName"}
    /\ held' = last
    /\ pc' = "idle"
    /\ last' = NoCall
    /\ UNCHANGED <<importPath2pkgName, pkgName2importExpr, passed, pkg, currentPkgPath>>

Next ==
    \/ \E p \in ImportPaths : AddImportCall(p)
    \/ \E t \in Types : GetTypeNameCall(t)
    \/ DumpImportExprsCall
    \/ Return
    \/ Hold

Spec == Init /\ [][Next]_vars

-----------------------------------------------------------------------------
(* Claims about the import store and getTypeName, checked under Spec *)

StrX == <<"x">>
StrX2 == <<"x", "2">>
StrX3 == <<"x", "3">>
StrX22 == <<"x", "2", "2">>

\* a named type defined in a package other than the one being scanned
Foreign(typ) == typ.kind = "Named" /\ typ.hasPkg /\ typ.pkg # currentPkgPath

\* a named type defined in the package being scanned
Local(typ) == typ.kind = "Named" /\ typ.hasPkg /\ typ.pkg = currentPkgPath

Returned(op) == pc = "returned" /\ last.op = op

\* C1: no two distinct import paths of the store have the same alias
C1_AliasesDistinct ==
    \A p, q \in DOMAIN importPath2pkgName :
        p # q => importPath2pkgName[p] # importPath2pkgName[q]

\* a/x and b/x collide on x, and the path x2 was added after b/x had taken
\* the generated name x2
C1_Witness ==
    /\ {PathList[1], PathList[2], PathList[3]} \subseteq DOMAIN importPath2pkgName
    /\ importPath2pkgName[PathList[2]] = StrX2
    /\ importPath2pkgName[PathList[3]] = StrX22

\* C2: AddImport(p) returns the alias that an earlier AddImport(p) returned,
\* whatever calls were made in between
C2_AddImportIdempotent ==
    (Returned("AddImport") /\ held.op = "AddImport" /\ held.path = last.path)
        => last.ret = held.ret

\* the first AddImport(b/x) bound x; a/x was added after it and AddImport(b/x)
\* has returned again
C2_Witness ==
    /\ Returned("AddImport")
    /\ held.op = "AddImport" /\ held.fresh
    /\ held.path = PathList[2] /\ last.path = PathList[2]
    /\ PathList[1] \in DOMAIN importPath2pkgName
    /\ last.ret = StrX

\* the import path of an import declaration: the text between its quotes
ExprPath(expr) ==
    LET close == CHOOSE i \in 2..Len(expr) :
                    /\ expr[i] = Quote[1]
                    /\ \A j \in 2..(i - 1) : expr[j] # Quote[1]
    IN  SubSeq(expr, 2, close - 1)

\* C3: DumpImportExprs returns as many declarations as distinct import paths
\* were passed to AddImport, and exactly one of them for each such path
C3_DumpOnePerPath ==
    Returned("DumpImportExprs") =>
        /\ Len(last.exprs) = Cardinality(passed)
        /\ \A p \in passed :
              Cardinality({i \in 1..Len(last.exprs) : ExprPath(last.exprs[i]) = p}) = 1

\* a dump of three imports, two of them colliding on x
C3_Witness ==
    /\ Returned("DumpImportExprs")
    /\ Len(last.exprs) = 3
    /\ {PathList[1], PathList[2]} \subseteq passed

\* C4: for a foreign named type getTypeName returns alias.Name, alias being
\* what AddImport returns for the defining package's path on this store
C4_ForeignQualified ==
    (Returned("getTypeName") /\ Foreign(last.typ)) =>
        last.ret = AddImport(importStore, last.typ.pkg).ret \o Dot \o last.typ.name

\* b/x.T canonicalized to x2.T
C4_Witness ==
    /\ Returned("getTypeName")
    /\ last.typ = NamedT(PathList[2], StrT)
    /\ last.ret = StrX2 \o Dot \o StrT

\* the constructors' prefixes, as getTypeName writes them
WrapPrefix(typ) ==
    CASE typ.kind = "Pointer" -> <<"*">>
      [] typ.kind = "Slice" -> <<"[", "]">>
      [] typ.kind = "Array" -> <<"[">> \o FormatInt(typ.len) \o <<"]">>
      [] typ.kind = "Chan" -> ChanDir(typ.dir)
      [] OTHER -> <<>>

HasSuffix(s, suffix) ==
    /\ Len(s) >= Len(suffix)
    /\ SubSeq(s, Len(s) - Len(suffix) + 1, Len(s)) = suffix

\* whether every named type in typ, at any depth, is local or predeclared
RECURSIVE OnlyLocal(_)
OnlyLocal(typ) ==
    /\ typ.kind = "Named" => ~Foreign(typ)
    /\ typ.dir # "unsafe"
    /\ \A i \in 1..Len(typ.args) : OnlyLocal(typ.args[i])

\* C5: a named type of the package being scanned is rendered as its bare name,
\* at the top and inside a pointer, slice, array, channel or map
C5_LocalBare ==
    Returned("getTypeName") =>
        LET typ == last.typ
        IN  /\ Local(typ) => last.ret = typ.name
            /\ (typ.kind \in {"Pointer", "Slice", "Array", "Chan"} /\ Local(typ.args[1]))
                  => last.ret = WrapPrefix(typ) \o typ.args[1].name
            /\ (typ.kind = "Map" /\ Local(typ.args[1]))
                  => HasPrefix(last.ret, StrMapOpen \o typ.args[1].name \o <<"]">>)
            /\ (typ.kind = "Map" /\ Local(typ.args[2]))
                  => HasSuffix(last.ret, <<"]">> \o typ.args[2].name)
            /\ (typ.kind \in {"Pointer", "Slice", "Array", "Chan", "Map"} /\ OnlyLocal(typ))
                  => \A i \in 1..Len(last.ret) : last.ret[i] # Dot[1]

\* a map from a local named type to a foreign one, with an import of the same
\* last segment as the local package registered
C5_Witness ==
    /\ Returned("getTypeName")
    /\ last.typ.kind = "Map"
    /\ Local(last.typ.args[1])
    /\ Foreign(last.typ.args[2])
    /\ last.ret = StrMapOpen \o StrT \o <<"]">> \o StrX \o Dot \o StrT

\* C6: a foreign named type's canonical string differs from the canonical
\* string of every foreign type of the same name defined in another path
C6_SameNameDistinct ==
    (Returned("getTypeName") /\ Foreign(last.typ)) =>
        \A q \in ImportPaths \ {last.typ.pkg, currentPkgPath} :
            getTypeName(NamedT(q, last.typ.name), currentPkgPath, importStore).name # last.ret

\* c/x.T canonicalized after a/x and b/x, which have the same last segment
C6_Witness ==
    /\ Returned("getTypeName")
    /\ last.typ = NamedT(PathList[4], StrT)
    /\ {PathList[1], PathList[2]} \subseteq DOMAIN importPath2pkgName
    /\ last.ret = StrX3 \o Dot \o StrT

\* C7: getTypeName(t) returns the string that an earlier getTypeName(t) on the
\* store returned, whatever calls were made in between
C7_SameTypeSameString ==
    (Returned("getTypeName") /\ held.op = "getTypeName" /\ held.typ = last.typ)
        => last.ret = held.ret

\* b/x.T was canonicalized first, as x.T; a/x was registered after it, and
\* b/x.T has been canonicalized again
C7_Witness ==
    /\ Returned("getTypeName")
    /\ held.op = "getTypeName" /\ held.fresh
    /\ held.typ = SliceT(NamedT(PathList[2], StrT)) /\ last.typ = held.typ
    /\ PathList[1] \in DOMAIN importPath2pkgName
    /\ currentPkgPath = LocalPath

\* the last segment of an import path: what follows its last slash, the whole
\* path when it has none
LastSegment(importPath) ==
    CHOOSE d \in {SubSeq(importPath, i, Len(importPath)) : i \in 1..Len(importPath) + 1} :
        /\ \A j \in 1..Len(d) : d[j] # "/"
        /\ \/ Len(d) = Len(importPath)
           \/ importPath[Len(importPath) - Len(d)] = "/"

\* C13: a call of AddImport with a new import path binds and returns the
\* path's last segment d when d is not bound in the store, and otherwise d
\* followed by the smallest k >= 2 for which d+k is not bound
C13_SmallestFreeSuffix ==
    [][(pc = "idle" /\ pc' = "returned" /\ last'.op = "AddImport" /\ last'.fresh) =>
          LET d == LastSegment(last'.path)
              bound == DOMAIN pkgName2importExpr
          IN  /\ importPath2pkgName'[last'.path] = last'.ret
              /\ IF d \notin bound THEN last'.ret = d
                 ELSE \E k \in 2..(Cardinality(bound) + 2) :
                         /\ last'.ret = d \o FormatInt(k)
                         /\ last'.ret \notin bound
                         /\ \A j \in 2..(k - 1) : (d \o FormatInt(j)) \in bound]_vars

\* with a/x and b/x bound to x and x2, AddImport of the path x2 returned x22
C13_Witness ==
    /\ Returned("AddImport")
    /\ last.fresh
    /\ last.path = PathList[3]
    /\ last.ret = StrX22
    /\ importPath2pkgName[PathList[2]] = StrX2

\* C14: the import declaration recorded for a path is the bare quoted path
\* exactly when the path's alias is its last segment, and the quoted path
\* followed by the alias exactly when the alias is another name
C14_DeclarationForm ==
    \A p \in DOMAIN importPath2pkgName :
        LET name == importPath2pkgName[p]
            bare == <<"\"">> \o p \o <<"\"">>
        IN  /\ name \in DOMAIN pkgName2importExpr
            /\ (pkgName2importExpr[name] = bare) <=> (name = LastSegment(p))
            /\ (pkgName2importExpr[name] = bare \o <<" ">> \o name) <=> (name # LastSegment(p))

\* a/x is imported under its last segment, b/x and x2 under other names
C14_Witness ==
    /\ PathList[1] \in DOMAIN importPath2pkgName
    /\ importPath2pkgName[PathList[1]] = StrX
    /\ PathList[2] \in DOMAIN importPath2pkgName
    /\ importPath2pkgName[PathList[2]] = StrX2
    /\ PathList[3] \in DOMAIN importPath2pkgName
    /\ importPath2pkgName[PathList[3]] = StrX22
    /\ pc = "returned"

\* C18: the sequence DumpImportExprs returns is determined by the AddImport
\* calls the store has seen: it is the one sequence the store can return
C18_DumpDeterministic ==
    Returned("DumpImportExprs") =>
        \A exprs \in DumpImportExprs(importStore) : exprs = last.exprs

-----------------------------------------------------------------------------
(* utils.go: FindMethods and findFuncDoc *)

\* the most parameters of a method of the scanned packages
MaxParams == 2

UpperLetters ==
    {"A", "B", "C", "D", "E", "F", "G", "H", "I", "J", "K", "L", "M",
     "N", "O", "P", "Q", "R", "S", "T", "U", "V", "W", "X", "Y", "Z"}

\* types.Object.Exported(): the name starts with an upper-case letter
Exported(name) == Len(name) > 0 /\ name[1] \in UpperLetters

\* strings.TrimPrefix(s, prefix)
TrimPrefix(s, prefix) ==
    IF HasPrefix(s, prefix) THEN SubSeq(s, Len(prefix) + 1, Len(s)) ELSE s

StrSlice == <<"[", "]">>
StrArg == <<"a", "r", "g">>
Newline == <<"\n">>

\* *ast.FuncDecl: Name.Pos(), Doc (hasDoc: Doc != nil) and the declarations
\* in its body
FuncDecl(namePos, hasDoc, doc, body) ==
    [node |-> "FuncDecl", tok |-> "FUNC", namePos |-> namePos, hasDoc |-> hasDoc,
     doc |-> doc, specs |-> <<>>, body |-> body]

\* *ast.File: Pos(), End() and the top-level declarations
File(pos, end, decls) == [pos |-> pos, end |-> end, decls |-> decls]

\* inspectFuncDoc taking the first function declaration, whatever its position
inspectFuncDocFirst(decls, i, pos) ==
    IF i > Len(decls) \/ decls[i].node # "FuncDecl" THEN [found |-> FALSE, doc |-> <<>>]
    ELSE [found |-> TRUE,
          doc |-> IF decls[i].hasDoc THEN Join(decls[i].doc, Newline) ELSE <<>>]

\* the ast.Inspect of findFuncDoc over one file: the first function
\* declaration whose name is at pos
RECURSIVE inspectFuncDoc(_, _, _)
inspectFuncDoc(decls, i, pos) ==
    IF i > Len(decls) THEN [found |-> FALSE, doc |-> <<>>]
    ELSE IF decls[i].node = "FuncDecl" /\ decls[i].namePos = pos
    THEN [found |-> TRUE,
          doc |-> IF decls[i].hasDoc THEN Join(decls[i].doc, Newline) ELSE <<>>]
    ELSE inspectFuncDoc(decls, i + 1, pos)

\* func findFuncDoc(pkg *packages.Package, pos token.Pos) string
RECURSIVE findFuncDocFrom(_, _, _)
findFuncDocFrom(files, i, pos) ==
    IF i > Len(files) THEN <<>>
    ELSE IF files[i].pos <= pos /\ pos < files[i].end
    THEN LET r == inspectFuncDoc(files[i].decls, 1, pos)
         IN  IF r.found THEN r.doc ELSE findFuncDocFrom(files, i + 1, pos)
    ELSE findFuncDocFrom(files, i + 1, pos)

findFuncDoc(package, pos) == findFuncDocFrom(package.syntax, 1, pos)

\* variadicTypeName stripping every leading [] of the slice's canonical name
RECURSIVE variadicTypeNameAll(_)
variadicTypeNameAll(typeName) ==
    IF HasPrefix(typeName, StrSlice)
    THEN variadicTypeNameAll(SubSeq(typeName, Len(StrSlice) + 1, Len(typeName)))
    ELSE typeName

\* FindMethods on the last parameter of a variadic method: the [] prefix of
\* the slice's canonical name is removed
variadicTypeName(typeName) == TrimPrefix(typeName, StrSlice)

\* the Param FindMethods appends for the j-th parameter (j counts from 1; the
\* code's index is j - 1), typeName being what getTypeName returned for it
paramOf(method, j, typeName) ==
    [Name |-> IF method.params[j].name = <<>> THEN StrArg \o FormatInt(j - 1)
              ELSE method.params[j].name,
     Type |-> IF j = Len(method.params) /\ method.variadic
              THEN variadicTypeName(typeName) ELSE typeName]

\* FindMethods' loop over the parameters, from the j-th on; t is the store and
\* the name getTypeName returned for parameter j - 1
RECURSIVE paramsFrom(_, _, _, _, _)
\* one turn of the parameters loop, t being getTypeName's outcome for parameter j
paramsNext(method, j, curPkgPath, t, acc) ==
    paramsFrom(method, j + 1, curPkgPath, t, Append(acc, paramOf(method, j, t.name)))

paramsFrom(method, j, curPkgPath, t, acc) ==
    IF j > Len(method.params) THEN [store |-> t.store, params |-> acc]
    ELSE paramsNext(method, j, curPkgPath,
                    getTypeName(method.params[j].type, curPkgPath, t.store), acc)

\* FindMethods' loop over the results, from the j-th on
RECURSIVE resultsFrom(_, _, _, _, _)
\* one turn of the results loop, t being getTypeName's outcome for result j
resultsNext(method, j, curPkgPath, t, acc) ==
    resultsFrom(method, j + 1, curPkgPath, t, Append(acc, [Type |-> t.name]))

resultsFrom(method, j, curPkgPath, t, acc) ==
    IF j > Len(method.results) THEN [store |-> t.store, results |-> acc]
    ELSE resultsNext(method, j, curPkgPath,
                     getTypeName(method.results[j], curPkgPath, t.store), acc)

\* the Method FindMethods makes of one exported method of the named type, ps
\* and rs being the outcome of its two loops
methodOf(package, obj, method, ps, rs) ==
    [ReceiverType |-> IF method.recvPtr THEN <<"*">> \o obj.name ELSE obj.name,
     Name |-> method.name,
     Params |-> ps.params,
     Results |-> rs.results,
     IsVariadic |-> method.variadic,
     Doc |-> findFuncDoc(package, method.pos)]

\* FindMethods' loop over named.Method(i): the unexported methods are skipped
RECURSIVE methodsFrom(_, _, _, _, _)
\* one turn of the methods loop once the results loop of method i has run
methodsResults(package, obj, i, acc, ps, rs) ==
    methodsFrom(package, obj, i + 1, rs.store,
                Append(acc, methodOf(package, obj, obj.methods[i], ps, rs)))

\* one turn of the methods loop once the parameters loop of method i has run
methodsParams(package, obj, i, acc, ps) ==
    methodsResults(package, obj, i, acc, ps,
                   resultsFrom(obj.methods[i], 1, package.path,
                               [store |-> ps.store, name |-> <<>>], <<>>))

\* methodsFrom leaving the loop at the first unexported method
methodsFromBreak(package, obj, i, store, acc) ==
    IF i > Len(obj.methods) \/ ~Exported(obj.methods[i].name)
    THEN [store |-> store, methods |-> acc]
    ELSE methodsParams(package, obj, i, acc,
                       paramsFrom(obj.methods[i], 1, package.path,
                                  [store |-> store, name |-> <<>>], <<>>))

methodsFrom(package, obj, i, store, acc) ==
    IF i > Len(obj.methods) THEN [store |-> store, methods |-> acc]
    ELSE IF ~Exported(obj.methods[i].name)
    THEN methodsFrom(package, obj, i + 1, store, acc)
    ELSE methodsParams(package, obj, i, acc,
                       paramsFrom(obj.methods[i], 1, package.path,
                                  [store |-> store, name |-> <<>>], <<>>))

\* func FindMethods(pkg *packages.Package, structName string, importStore *ImportStore) []Method
\* the store after the call and the methods returned
FindMethods(package, structName, store) ==
    IF structName \notin DOMAIN package.scope
    THEN [store |-> store, methods |-> <<>>]
    ELSE IF ~package.scope[structName].named
    THEN [store |-> store, methods |-> <<>>]
    ELSE methodsFrom(package, package.scope[structName], 1, store, <<>>)

-----------------------------------------------------------------------------
(* The packages FindMethods is called on *)

StrS == <<"S">>
StrN == <<"N">>
StrZ == <<"Z">>
StrFoo == <<"F", "o", "o">>
StrBar == <<"b", "a", "r">>
StrBaz == <<"B", "a", "z">>
StrDocFoo == <<"/", "/", " ", "F", "o", "o">>
StrDocMore == <<"/", "/", " ", "m", "o", "r", "e">>

\* the names FindMethods looks up: a named type, an object that is no named
\* type, and a name that is not in the package's scope
StructNames == {StrS, StrN, StrZ}

\* the sequences over S of length at most n
RECURSIVE SeqsUpTo(_, _)
SeqsUpTo(S, n) ==
    IF n = 0 THEN {<<>>}
    ELSE LET shorter == SeqsUpTo(S, n - 1)
         IN  shorter \cup {Append(q, x) : q \in {r \in shorter : Len(r) = n - 1}, x \in S}

\* the types of the parameters before a variadic one
ParamTypes ==
    {BasicT(StrInt), NamedT(PathList[1], StrT), SliceT(NamedT(PathList[2], StrT)),
     NamedT(LocalPath, StrT), SignatureT(<<NamedT(PathList[4], StrT)>>)}

\* the element types T of a variadic parameter ...T
VariadicElems ==
    {BasicT(StrInt), NamedT(PathList[2], StrT), SliceT(BasicT(StrInt)),
     SliceT(SliceT(NamedT(PathList[1], StrT))),
     MapT(BasicT(StrInt), SliceT(NamedT(PathList[1], StrT))),
     PointerT(NamedT(LocalPath, StrT))}

\* a method's parameter types and whether it is variadic: the type checker
\* gives the last parameter of a variadic method the type []T
Signatures ==
    {[types |-> ts, variadic |-> FALSE] : ts \in SeqsUpTo(ParamTypes, MaxParams)}
        \cup {[types |-> Append(ts, SliceT(e)), variadic |-> TRUE] :
                ts \in SeqsUpTo(ParamTypes, MaxParams - 1), e \in VariadicElems}

\* a *types.Func of the method set: its name, position, receiver, parameters
\* (named p0, p1, ... or unnamed), variadic flag and results
Method(name, pos, recvPtr, named, sig, results) ==
    [name |-> name, pos |-> pos, recvPtr |-> recvPtr,
     params |-> [j \in 1..Len(sig.types) |->
                    [name |-> IF named THEN <<"p">> \o FormatInt(j - 1) ELSE <<>>,
                     type |-> sig.types[j]]],
     variadic |-> sig.variadic, results |-> results]

\* an unexported method, whose parameter type c/x.T is never canonicalized
BarMethod(pos) ==
    Method(StrBar, pos, TRUE, TRUE,
           [types |-> <<SliceT(NamedT(PathList[4], StrT))>>, variadic |-> TRUE], <<>>)

\* an exported method with a slice as its last, non-variadic parameter
BazMethod(pos) ==
    Method(StrBaz, pos, FALSE, FALSE,
           [types |-> <<SliceT(NamedT(PathList[3], StrT))>>, variadic |-> FALSE],
           <<BasicT(StrInt)>>)

\* the method Foo under test, in its two spellings
FooMethods(pos) ==
    {Method(StrFoo, pos, TRUE, TRUE, sig, <<>>) : sig \in Signatures}
        \cup {Method(StrFoo, pos, FALSE, FALSE, sig,
                     <<NamedT(PathList[2], StrT), PredeclaredT(StrError)>>) :
                sig \in Signatures}

\* the method sets of S: Foo alone, after an unexported method, before Baz
MethodSets ==
    {<<m>> : m \in FooMethods(10)}
        \cup {<<BarMethod(10), m>> : m \in FooMethods(20)}
        \cup {<<m, BazMethod(20)>> : m \in FooMethods(10)}

\* the one file of such a package: a function declaration per method, the
\* first with a doc comment of two lines, the others with none
SyntaxOf(methods) ==
    <<File(1, 100,
           [i \in 1..Len(methods) |->
               FuncDecl(methods[i].pos, i = 1,
                        IF i = 1 THEN <<StrDocFoo, StrDocMore>> ELSE <<>>, <<>>)])>>

\* a file per method, holding its declaration alone; the declarations after
\* the first have a doc comment of one line, the first has none
SyntaxSplit(methods) ==
    [i \in 1..Len(methods) |->
        File(methods[i].pos - 5, methods[i].pos + 5,
             <<FuncDecl(methods[i].pos, i # 1,
                        IF i # 1 THEN <<StrDocMore>> ELSE <<>>, <<>>)>>)]

\* one file whose documented function declarations are at other positions
\* than the methods
SyntaxElsewhere(methods) ==
    <<File(1, 100,
           [i \in 1..Len(methods) |->
               FuncDecl(methods[i].pos + 1, TRUE, <<StrDocFoo>>, <<>>)])>>

\* the syntax trees a package with these methods is loaded with
Syntaxes(methods) ==
    {SyntaxOf(methods), SyntaxSplit(methods), SyntaxElsewhere(methods)}

\* a loaded package: pkg.Types.Path(), pkg.Syntax, and pkg.Types.Scope() with
\* the named type S and the object N, which is no named type
Package(path, methods, syntax) ==
    [path |-> path, syntax |-> syntax,
     scope |-> (StrS :> [named |-> TRUE, name |-> StrS, methods |-> methods])
                 @@ (StrN :> [named |-> FALSE, name |-> StrN, methods |-> <<>>])]

MethodPackages ==
    UNION {{Package(LocalPath, ms, syn) : syn \in Syntaxes(ms)} : ms \in MethodSets}

-----------------------------------------------------------------------------
(* The state machine of FindMethods: one package, one ImportStore *)

\* the import paths the store may hold before FindMethods is called
PreloadPaths == {PathList[2], PathList[3]}

InitMethods ==
    /\ importPath2pkgName = NewImportStore.importPath2pkgName
    /\ pkgName2importExpr = NewImportStore.pkgName2importExpr
    /\ passed = NewImportStore.passed
    /\ pkg \in MethodPackages
    /\ currentPkgPath = pkg.path
    /\ pc = "idle"
    /\ last = NoCall
    /\ held = NoCall

\* a returned FindMethods call, with the store before it
MethodsCall(structName, methods, before) ==
    [op |-> "FindMethods", path |-> <<>>, typ |-> NoType, ret |-> <<>>,
     exprs |-> <<>>, fresh |-> FALSE, structName |-> structName,
     methods |-> methods, before |-> before]

\* the return of FindMethods with r, the store after the call and its methods
MethodsReturn(structName, r) ==
    Returns(r.store, MethodsCall(structName, r.methods, passed))

\* a call of FindMethods(pkg, structName, store)
FindMethodsCall(structName) ==
    /\ pc = "idle"
    /\ MethodsReturn(structName, FindMethods(pkg, structName, importStore))

NextMethods ==
    \/ \E n \in StructNames : FindMethodsCall(n)
    \/ \E p \in PreloadPaths : AddImportCall(p)
    \/ Return

SpecMethods == InitMethods /\ [][NextMethods]_vars

-----------------------------------------------------------------------------
(* Claims about FindMethods, checked under SpecMethods *)

\* the exported methods of the type structName names, in the type checker's
\* order: the methods FindMethods' results are to be compared with
SourceMethods(structName) ==
    IF structName \in DOMAIN pkg.scope /\ pkg.scope[structName].named
    THEN SelectSeq(pkg.scope[structName].methods, LAMBDA m : Exported(m.name))
    ELSE <<>>

\* the canonical string of typ on the store as it is now
Canonical(typ) == getTypeName(typ, currentPkgPath, importStore).name

\* C8: a variadic method is recorded with IsVariadic set and its last
\* parameter's Type the canonical string of the element type T, not of []T;
\* every other parameter has the canonical string of its full type
C8_VariadicElementType ==
    Returned("FindMethods") =>
        LET src == SourceMethods(last.structName)
        IN  \A i \in 1..Len(last.methods) :
                LET m == last.methods[i]
                    n == Len(src[i].params)
                IN  /\ i <= Len(src)
                    /\ m.IsVariadic = src[i].variadic
                    /\ Len(m.Params) = n
                    /\ \A j \in 1..n :
                          m.Params[j].Type =
                              IF j = n /\ src[i].variadic
                              THEN Canonical(src[i].params[j].type.args[1])
                              ELSE Canonical(src[i].params[j].type)

\* Foo(p0 a/x.T, p1 ...[][]a/x.T) was scanned: the last parameter is recorded
\* as [][]x.T, and Baz's slice parameter keeps its []
C8_Witness ==
    /\ Returned("FindMethods")
    /\ Len(last.methods) = 2
    /\ last.methods[1].IsVariadic
    /\ Len(last.methods[1].Params) = 2
    /\ last.methods[1].Params[2].Type = StrSlice \o StrSlice \o StrX \o Dot \o StrT
    /\ ~last.methods[2].IsVariadic
    /\ HasPrefix(last.methods[2].Params[1].Type, StrSlice)

\* the function declarations of the package whose name is at pos
FuncDeclsAt(pos) ==
    UNION {{pkg.syntax[f].decls[d] : d \in {e \in 1..Len(pkg.syntax[f].decls) :
                                              /\ pkg.syntax[f].decls[e].node = "FuncDecl"
                                              /\ pkg.syntax[f].decls[e].namePos = pos}} :
           f \in 1..Len(pkg.syntax)}

\* C11: the Doc of every returned method is the lines of the doc comment of
\* the method's declaration, in order, joined by a newline; it is empty when
\* the declaration has no doc comment or no function declaration is at the
\* method's position
C11_DocOfDeclaration ==
    Returned("FindMethods") =>
        LET src == SourceMethods(last.structName)
        IN  \A i \in 1..Len(last.methods) :
                /\ i <= Len(src)
                /\ LET ds == FuncDeclsAt(src[i].pos)
                   IN  IF ds = {} THEN last.methods[i].Doc = <<>>
                       ELSE \A fd \in ds :
                               last.methods[i].Doc =
                                   IF fd.hasDoc THEN Join(fd.doc, Newline) ELSE <<>>

\* Foo, declared under a doc comment of two lines, and Baz, declared under
\* none, were returned with their Doc
C11_Witness ==
    /\ Returned("FindMethods")
    /\ Len(last.methods) = 2
    /\ last.methods[1].Name = StrFoo
    /\ last.methods[1].Doc = StrDocFoo \o Newline \o StrDocMore
    /\ last.methods[2].Name = StrBaz
    /\ last.methods[2].Doc = <<>>
    /\ FuncDeclsAt(20) # {}

\* the indices of the type's methods whose name starts with an upper-case
\* letter, in increasing order
RECURSIVE UpperIndices(_, _)
UpperIndices(methods, i) ==
    IF i > Len(methods) THEN <<>>
    ELSE IF methods[i].name # <<>> /\ methods[i].name[1] \in UpperLetters
    THEN <<i>> \o UpperIndices(methods, i + 1)
    ELSE UpperIndices(methods, i + 1)

\* C12: FindMethods returns one Method per exported method of the named type,
\* in the type checker's order, with its name and its receiver, and none for
\* an unexported method; a name that is not in the scope, or that is no named
\* type, gives no methods
C12_OnePerExportedMethod ==
    Returned("FindMethods") =>
        IF last.structName \in DOMAIN pkg.scope /\ pkg.scope[last.structName].named
        THEN LET obj == pkg.scope[last.structName]
                 idx == UpperIndices(obj.methods, 1)
             IN  /\ Len(last.methods) = Len(idx)
                 /\ \A k \in 1..Len(idx) :
                       /\ last.methods[k].Name = obj.methods[idx[k]].name
                       /\ last.methods[k].ReceiverType =
                              IF obj.methods[idx[k]].recvPtr THEN <<"*">> \o obj.name
                              ELSE obj.name
        ELSE last.methods = <<>>

\* the unexported bar comes first in the method set and Foo alone was returned
C12_Witness ==
    /\ Returned("FindMethods")
    /\ last.structName = StrS
    /\ Len(pkg.scope[StrS].methods) = 2
    /\ pkg.scope[StrS].methods[1].name = StrBar
    /\ Len(last.methods) = 1
    /\ last.methods[1].Name = StrFoo

\* the import paths of the leaves of typ: the defining package of every named
\* type of another package than the scanned one, and unsafe for unsafe.Pointer
RECURSIVE LeafPaths(_)
LeafPaths(typ) ==
    (IF Foreign(typ) THEN {typ.pkg} ELSE {})
        \cup (IF typ.kind = "Basic" /\ typ.dir = "unsafe" THEN {StrUnsafe} ELSE {})
        \cup UNION {LeafPaths(typ.args[i]) : i \in 1..Len(typ.args)}

\* the leaf import paths of the parameter and result types of a method
MethodPaths(m) ==
    UNION ({LeafPaths(m.params[j].type) : j \in 1..Len(m.params)}
               \cup {LeafPaths(m.results[j]) : j \in 1..Len(m.results)})

\* C15: after FindMethods on a fresh store, the import paths of the store are
\* the leaf import paths of the parameter and result types of the methods it
\* processed, leaves inside function signatures and anonymous structs included
C15_ImportsAreLeafPaths ==
    (Returned("FindMethods") /\ last.before = {}) =>
        LET src == SourceMethods(last.structName)
        IN  DOMAIN importPath2pkgName = UNION {MethodPaths(src[i]) : i \in 1..Len(src)}

-----------------------------------------------------------------------------
(* utils.go: IdentifiableTypeName *)

LowerLetters ==
    {"a", "b", "c", "d", "e", "f", "g", "h", "i", "j", "k", "l", "m",
     "n", "o", "p", "q", "r", "s", "t", "u", "v", "w", "x", "y", "z"}

DigitChars == {Digits[i] : i \in 1..Len(Digits)}

\* the characters cleanRegex keeps: [a-zA-Z0-9_]
WordChars == LowerLetters \cup UpperLetters \cup DigitChars \cup {"_"}

StrMap == <<"m", "a", "p">>
StrTo == <<"T", "o">>

\* strings.ReplaceAll(s, old, new) from index i on: the non-overlapping
\* occurrences of old, leftmost first
RECURSIVE ReplaceAllFrom(_, _, _, _)
ReplaceAllFrom(s, i, old, new) ==
    IF i > Len(s) THEN <<>>
    ELSE IF OccursAt(s, old, i) THEN new \o ReplaceAllFrom(s, i + Len(old), old, new)
    ELSE <<s[i]>> \o ReplaceAllFrom(s, i + 1, old, new)

ReplaceAll(s, old, new) == ReplaceAllFrom(s, 1, old, new)

\* the index after the run of digits of s that starts at i
RECURSIVE DigitsEnd(_, _)
DigitsEnd(s, i) ==
    IF i <= Len(s) /\ s[i] \in DigitChars THEN DigitsEnd(s, i + 1) ELSE i

\* arrayRegex.ReplaceAllString(s, "arr${1}Of") from index i on, arrayRegex
\* being \[(\d+)\]
RECURSIVE arrayRegexReplaceFrom(_, _)
arrayRegexReplaceFrom(s, i) ==
    IF i > Len(s) THEN <<>>
    ELSE LET k == DigitsEnd(s, i + 1)
         IN  IF s[i] = "[" /\ k > i + 1 /\ k <= Len(s) /\ s[k] = "]"
             THEN <<"a", "r", "r">> \o SubSeq(s, i + 1, k - 1) \o <<"O", "f">> \o arrayRegexReplaceFrom(s, k + 1)
             ELSE <<s[i]>> \o arrayRegexReplaceFrom(s, i + 1)

arrayRegexReplace(s) == arrayRegexReplaceFrom(s, 1)

\* the index of the first ] of s at or after i, Len(s) + 1 when there is none
RECURSIVE BracketAt(_, _)
BracketAt(s, i) ==
    IF i > Len(s) \/ s[i] = "]" THEN i ELSE BracketAt(s, i + 1)

\* whether mapRegex, map\[([^\]]+)\](.*), matches s from index i
mapRegexMatchesAt(s, i) ==
    /\ OccursAt(s, StrMapOpen, i)
    /\ LET k == BracketAt(s, i + Len(StrMapOpen))
       IN  k > i + Len(StrMapOpen) /\ k <= Len(s)

\* mapRegex.ReplaceAllString(s, "map${1}To${2}"): the leftmost match takes the
\* rest of the string into its second group, so there is one replacement
mapRegexReplace(s) ==
    LET starts == {i \in 1..Len(s) : mapRegexMatchesAt(s, i)}
    IN  IF starts = {} THEN s
        ELSE LET i == CHOOSE x \in starts : \A y \in starts : x <= y
                 k == BracketAt(s, i + Len(StrMapOpen))
             IN  SubSeq(s, 1, i - 1) \o StrMap \o SubSeq(s, i + Len(StrMapOpen), k - 1)
                     \o StrTo \o SubSeq(s, k + 1, Len(s))

\* the last step of IdentifiableTypeName left out
cleanRegexKeep(s) == s

\* cleanRegex.ReplaceAllString(s, ""), cleanRegex being [^a-zA-Z0-9_]
cleanRegexReplace(s) == SelectSeq(s, LAMBDA c : c \in WordChars)

\* the func( branch of IdentifiableTypeName
funcReplace(s) ==
    IF HasPrefix(s, StrFuncOpen)
    THEN ReplaceAll(ReplaceAll(s, StrFuncOpen, <<"f", "u", "n", "c", "W", "i", "t", "h">>), <<")">>, <<>>)
    ELSE s

\* func IdentifiableTypeName(typ string) string
IdentifiableTypeName(typ) ==
    LET t1 == ReplaceAll(typ, <<"*">>, <<"p", "o", "i", "n", "t", "e", "r", "O", "f">>)
        t2 == ReplaceAll(t1, StrSlice, <<"s", "l", "i", "c", "e", "O", "f">>)
        t3 == arrayRegexReplace(t2)
        t4 == mapRegexReplace(t3)
        t5 == ReplaceAll(t4, <<"c", "h", "a", "n", "<", "-">>, <<"s", "e", "n", "d", "C", "h", "a", "n", "O", "f">>)
        t6 == ReplaceAll(t5, <<"<", "-", "c", "h", "a", "n">>, <<"r", "e", "c", "v", "C", "h", "a", "n", "O", "f">>)
        t7 == ReplaceAll(t6, StrChan, <<"c", "h", "a", "n", "O", "f">>)
        t8 == funcReplace(t7)
        t9 == ReplaceAll(t8, StrInterface, <<"a", "n", "y">>)
        t10 == ReplaceAll(t9, Space, <<"_">>)
        t11 == ReplaceAll(t10, Dot, <<"_">>)
    IN  cleanRegexReplace(t11)

-----------------------------------------------------------------------------
(* The state machine of IdentifiableTypeName: it is applied to the canonical
   strings getTypeName returns on the run's store, and to its own results *)

\* a returned IdentifiableTypeName call on arg, the canonical string of typ or
\* (again) a string IdentifiableTypeName had returned for it
SanitizeCall(typ, arg, ret, again) ==
    [op |-> "IdentifiableTypeName", path |-> <<>>, typ |-> typ, ret |-> ret,
     exprs |-> <<>>, fresh |-> FALSE, arg |-> arg, again |-> again]

\* a call of IdentifiableTypeName on the string that was just returned
IdentifiableTypeNameCall ==
    /\ pc = "returned"
    /\ last.op \in {"getTypeName", "IdentifiableTypeName"}
    /\ last' = SanitizeCall(last.typ, last.ret, IdentifiableTypeName(last.ret),
                            last.op = "IdentifiableTypeName")
    /\ UNCHANGED <<importPath2pkgName, pkgName2importExpr, passed, pkg, currentPkgPath,
                   pc, held>>

NextSanitize ==
    \/ \E p \in ImportPaths : AddImportCall(p)
    \/ \E t \in Types : GetTypeNameCall(t)
    \/ IdentifiableTypeNameCall
    \/ Return

SpecSanitize == Init /\ [][NextSanitize]_vars

\* C9: IdentifiableTypeName applied to a string it returned for a canonical
\* type string returns that string
C9_SanitizeIdempotent ==
    (Returned("IdentifiableTypeName") /\ last.again) => last.ret = last.arg

\* map[int]map[x2.T]x.T was sanitized, and its result sanitized again
C9_Witness ==
    /\ Returned("IdentifiableTypeName")
    /\ last.again
    /\ last.typ = MapT(BasicT(StrInt), MapT(NamedT(PathList[2], StrT), NamedT(PathList[1], StrT)))
    /\ importPath2pkgName[PathList[2]] = StrX2
    /\ HasPrefix(last.ret, StrMap \o StrInt \o StrTo \o StrMap)

\* the number of map types in typ
RECURSIVE MapCount(_)
MapCount(typ) ==
    LET inner == [i \in 1..Len(typ.args) |-> MapCount(typ.args[i])]
        Sum[i \in 0..Len(inner)] == IF i = 0 THEN 0 ELSE inner[i] + Sum[i - 1]
    IN  (IF typ.kind = "Map" THEN 1 ELSE 0) + Sum[Len(inner)]

\* the number of places of s where the word occurs
Occurrences(s, word) == Cardinality({i \in 1..Len(s) : OccursAt(s, word, i)})

\* C17: IdentifiableTypeName writes every map[K]V of a canonical type string
\* as mapKToV, a map that is the value of another map included: the result
\* has one To per map of the type
C17_EveryMapRewritten ==
    (Returned("IdentifiableTypeName") /\ ~last.again) =>
        Occurrences(last.ret, StrTo) = MapCount(last.typ)

-----------------------------------------------------------------------------
(* utils.go: FindStruct *)

Whitespace == {" ", "\t", "\n", "\r", "\f"}

RECURSIVE TrimLeft(_)
TrimLeft(s) ==
    IF s # <<>> /\ Head(s) \in Whitespace THEN TrimLeft(Tail(s)) ELSE s

RECURSIVE TrimRight(_)
TrimRight(s) ==
    IF s # <<>> /\ s[Len(s)] \in Whitespace THEN TrimRight(SubSeq(s, 1, Len(s) - 1)) ELSE s

\* strings.TrimSpace
TrimSpace(s) == TrimRight(TrimLeft(s))

\* *ast.TypeSpec: its name, whether its Type is an *ast.StructType, and where
\* it stands in the package (file, declaration, statement, spec)
TypeSpec(name, struct) ==
    [node |-> "TypeSpec", name |-> name, struct |-> struct, pos |-> <<>>]

\* *ast.ValueSpec
ValueSpec(name) ==
    [node |-> "ValueSpec", name |-> name, struct |-> FALSE, pos |-> <<>>]

\* the nil *ast.TypeSpec
NoTypeSpec == [node |-> "nil", name |-> <<>>, struct |-> FALSE, pos |-> <<>>]

\* *ast.GenDecl: Tok, Doc (hasDoc: Doc != nil; doc: the Text of Doc.List) and Specs
GenDecl(tok, hasDoc, doc, specs) ==
    [node |-> "GenDecl", tok |-> tok, namePos |-> 0, hasDoc |-> hasDoc,
     doc |-> doc, specs |-> specs, body |-> <<>>]

\* the first spec that is a type spec, whatever its type
RECURSIVE firstTypeSpec(_, _)
firstTypeSpec(specs, k) ==
    IF k > Len(specs) THEN 0
    ELSE IF specs[k].node = "TypeSpec" THEN k
    ELSE firstTypeSpec(specs, k + 1)

\* the loop over genDecl.Specs: the index of the first *ast.TypeSpec whose
\* Type is an *ast.StructType, 0 when there is none
RECURSIVE firstStruct(_, _)
firstStruct(specs, k) ==
    IF k > Len(specs) THEN 0
    ELSE IF specs[k].node = "TypeSpec" /\ specs[k].struct THEN k
    ELSE firstStruct(specs, k + 1)

\* the loop over genDecl.Doc.List
docMatches(genDecl, commentPatten) ==
    /\ genDecl.hasDoc
    /\ \E i \in 1..Len(genDecl.doc) : TrimSpace(genDecl.doc[i]) = commentPatten

\* inspectFindStruct without the test of targetStruct at the top of the callback
RECURSIVE inspectFindStructLast(_, _, _, _)
inspectFindStructLast(nodes, i, commentPatten, targetStruct) ==
    IF i > Len(nodes) THEN targetStruct
    ELSE LET n == nodes[i]
             found ==
                 IF n.node # "GenDecl" \/ n.tok # "TYPE"
                 THEN inspectFindStructLast(n.body, 1, commentPatten, targetStruct)
                 ELSE IF docMatches(n, commentPatten) /\ firstStruct(n.specs, 1) # 0
                 THEN n.specs[firstStruct(n.specs, 1)]
                 ELSE inspectFindStructLast(n.body, 1, commentPatten, targetStruct)
         IN  inspectFindStructLast(nodes, i + 1, commentPatten, found)

\* the callback FindStruct hands to ast.Inspect, applied in depth-first order
\* to the declarations nodes[i..] and to the declarations below them
RECURSIVE inspectFindStruct(_, _, _, _)
inspectFindStruct(nodes, i, commentPatten, targetStruct) ==
    IF i > Len(nodes) THEN targetStruct
    ELSE LET n == nodes[i]
             found ==
                 IF targetStruct # NoTypeSpec THEN targetStruct
                 ELSE IF n.node # "GenDecl" \/ n.tok # "TYPE"
                 THEN inspectFindStruct(n.body, 1, commentPatten, targetStruct)
                 ELSE IF docMatches(n, commentPatten) /\ firstStruct(n.specs, 1) # 0
                 THEN n.specs[firstStruct(n.specs, 1)]
                 ELSE inspectFindStruct(n.body, 1, commentPatten, targetStruct)
         IN  inspectFindStruct(nodes, i + 1, commentPatten, found)

\* the loop over pkg.Syntax
RECURSIVE FindStructFrom(_, _, _, _)
FindStructFrom(files, i, commentPatten, targetStruct) ==
    IF i > Len(files) THEN targetStruct
    ELSE FindStructFrom(files, i + 1, commentPatten,
                        inspectFindStruct(files[i].decls, 1, commentPatten, targetStruct))

\* func FindStruct(pkg *packages.Package, commentPatten string) *ast.TypeSpec
FindStruct(package, commentPatten) ==
    FindStructFrom(package.syntax, 1, commentPatten, NoTypeSpec)

-----------------------------------------------------------------------------
(* The packages FindStruct is called with: two files of declarations *)

\* the most declarations the two files of a package hold together
MaxDecls == 2

StrMarker == <<"/", "/", "m">>
StrMarkerPadded == <<"/", "/", "m", " ">>
StrOtherMarker == <<"/", "/", "k">>
CommentPatterns == {StrMarker, StrOtherMarker}

\* no doc comment, the marker alone, and a group of two comments
DocGroups ==
    {[hasDoc |-> FALSE, doc |-> <<>>],
     [hasDoc |-> TRUE, doc |-> <<StrMarker>>],
     [hasDoc |-> TRUE, doc |-> <<StrOtherMarker, StrMarkerPadded>>]}

\* type S struct{...}; type N int; type ( N int; S struct{...} )
SpecLists ==
    {<<TypeSpec(StrS, TRUE)>>, <<TypeSpec(StrN, FALSE)>>,
     <<TypeSpec(StrN, FALSE), TypeSpec(StrS, TRUE)>>}

TypeDecls == {GenDecl("TYPE", d.hasDoc, d.doc, sp) : d \in DocGroups, sp \in SpecLists}

VarDecls ==
    {GenDecl("VAR", d.hasDoc, d.doc, <<ValueSpec(StrZ)>>) :
        d \in {g \in DocGroups : Len(g.doc) <= 1}}

\* functions whose body is empty or declares a local type under the marker
FuncDecls ==
    {FuncDecl(0, FALSE, <<>>, body) :
        body \in {<<>>} \cup {<<GenDecl("TYPE", TRUE, <<StrMarker>>, sp)>> :
                                  sp \in {s \in SpecLists : Len(s) = 1}}}

DeclShapes == TypeDecls \cup VarDecls \cup FuncDecls

\* the specs of a declaration, each at its place in the package
LocatedSpecs(decl, f, d, b) ==
    [k \in 1..Len(decl.specs) |-> [decl.specs[k] EXCEPT !.pos = <<f, d, b, k>>]]

\* declaration d of file f, with the declarations of its body
Located(decl, f, d) ==
    [decl EXCEPT
        !.specs = LocatedSpecs(decl, f, d, 0),
        !.body = [b \in 1..Len(decl.body) |->
                     [decl.body[b] EXCEPT !.specs = LocatedSpecs(decl.body[b], f, d, b)]]]

FileOf(f, shapes) ==
    File(f, f, [d \in 1..Len(shapes) |-> Located(shapes[d], f, d)])

\* the packages of two files that hold at most MaxDecls declarations together
FindPackages ==
    UNION {{[path |-> LocalPath, syntax |-> <<FileOf(1, s1), FileOf(2, s2)>>, scope |-> <<>>] :
               s2 \in SeqsUpTo(DeclShapes, MaxDecls - Len(s1))} :
           s1 \in SeqsUpTo(DeclShapes, MaxDecls)}

-----------------------------------------------------------------------------
(* The state machine of FindStruct: one package, searched for a marker *)

InitFind ==
    /\ importPath2pkgName = NewImportStore.importPath2pkgName
    /\ pkgName2importExpr = NewImportStore.pkgName2importExpr
    /\ passed = NewImportStore.passed
    /\ pkg \in FindPackages
    /\ currentPkgPath = pkg.path
    /\ pc = "idle"
    /\ last = NoCall
    /\ held = NoCall

\* a returned FindStruct call
FindCall(commentPatten, ret) ==
    [op |-> "FindStruct", path |-> <<>>, typ |-> NoType, ret |-> ret,
     exprs |-> <<>>, fresh |-> FALSE, pattern |-> commentPatten]

\* a call of FindStruct(pkg, commentPatten)
FindStructCall(commentPatten) ==
    /\ pc = "idle"
    /\ pc' = "returned"
    /\ last' = FindCall(commentPatten, FindStruct(pkg, commentPatten))
    /\ UNCHANGED <<importPath2pkgName, pkgName2importExpr, passed, pkg, currentPkgPath, held>>

NextFind ==
    \/ \E commentPatten \in CommentPatterns : FindStructCall(commentPatten)
    \/ Return

SpecFind == InitFind /\ [][NextFind]_vars

-----------------------------------------------------------------------------
(* Claims about FindStruct, checked under SpecFind *)

\* every declaration of the package, top-level or in a function body
AllDecls(package) ==
    UNION {{package.syntax[f].decls[d] : d \in 1..Len(package.syntax[f].decls)} \cup
           UNION {{package.syntax[f].decls[d].body[b] :
                      b \in 1..Len(package.syntax[f].decls[d].body)} :
                  d \in 1..Len(package.syntax[f].decls)} :
           f \in 1..Len(package.syntax)}

\* the type declarations preceded by a comment that is the marker once trimmed
MarkedTypeDecls(package, marker) ==
    {d \in AllDecls(package) :
        /\ d.node = "GenDecl" /\ d.tok = "TYPE" /\ d.hasDoc
        /\ \E i \in 1..Len(d.doc) : TrimSpace(d.doc[i]) = marker}

\* whether the declaration declares a struct type
DeclaresStruct(d) ==
    \E k \in 1..Len(d.specs) : d.specs[k].node = "TypeSpec" /\ d.specs[k].struct

\* C10: FindStruct returns nil when no type declaration of the package is both
\* preceded by a comment equal to the marker after trimming and declared as a
\* struct
C10_NoMarkedStructNil ==
    (/\ Returned("FindStruct")
     /\ \A d \in MarkedTypeDecls(pkg, last.pattern) : ~DeclaresStruct(d))
        => last.ret = NoTypeSpec

\* the marker sits on a non-struct type declaration only, next to an unmarked
\* struct, and FindStruct returned nil
C10_Witness ==
    /\ Returned("FindStruct")
    /\ last.pattern = StrMarker
    /\ MarkedTypeDecls(pkg, StrMarker) # {}
    /\ \A d \in MarkedTypeDecls(pkg, StrMarker) : ~DeclaresStruct(d)
    /\ \E d \in AllDecls(pkg) : d.node = "GenDecl" /\ d.tok = "TYPE" /\ DeclaresStruct(d)
    /\ last.ret = NoTypeSpec

\* where a declaration stands: its file, its place among the file's
\* declarations, and its place in the body of that declaration (0: top level)
PlaceOf(d) == SubSeq(d.specs[1].pos, 1, 3)

\* place a comes before place b in traversal order
Before(a, b) ==
    \/ a[1] < b[1]
    \/ a[1] = b[1] /\ a[2] < b[2]
    \/ a[1] = b[1] /\ a[2] = b[2] /\ a[3] < b[3]

\* the struct declarations under the marker
Matches(package, marker) == {d \in MarkedTypeDecls(package, marker) : DeclaresStruct(d)}

\* C16: when several struct declarations carry the marker, FindStruct returns
\* a struct of the first of them in traversal order (files in package order,
\* declarations in source order), and a later match neither replaces it nor
\* makes the call fail
C16_FirstMatchWins ==
    Returned("FindStruct") =>
        LET ms == Matches(pkg, last.pattern)
        IN  ms # {} =>
                \E d \in ms :
                    /\ \A e \in ms : e = d \/ Before(PlaceOf(d), PlaceOf(e))
                    /\ \E k \in 1..Len(d.specs) :
                          /\ d.specs[k].struct
                          /\ last.ret = d.specs[k]

\* the marker is on a struct declaration of each file, and the struct of the
\* first file was returned
C16_Witness ==
    /\ Returned("FindStruct")
    /\ last.pattern = StrMarker
    /\ \E d, e \in Matches(pkg, StrMarker) : PlaceOf(d)[1] = 1 /\ PlaceOf(e)[1] = 2
    /\ last.ret.node = "TypeSpec"
    /\ last.ret.pos[1] = 1

====
